---- MODULE Spec2Model ----
(***************************************************************************)
(* The Landsat 8 NDVI notebook (src/landsat8-cog-ndvi.ipynb) as a state    *)
(* machine: one action per executed cell (or loop iteration / UI callback).*)
(* Strings are sequences of one-character strings, so that split('_') and  *)
(* the slices [1:3], [-2:] are computed as Python computes them; literal   *)
(* fragments of an f-string template are kept as single tokens.  Cells     *)
(* that only display something (footprint map, single-band preview,        *)
(* DS.sel(time=...), the final plots) change no state and are left out.    *)
(* An exception ends the run: err holds it and pc stays at the cell.       *)
(***************************************************************************)
EXTENDS Integers, Sequences, FiniteSets, TLC

VARIABLES pc, entry, pids, df, served, datasets, diag, DS, NDVI, taps, calls,
          cen, s, err

vars == <<pc, entry, pids, df, served, datasets, diag, DS, NDVI, taps, calls,
          cen, s, err>>

(* ------------------------------ bounds -------------------------------- *)

\* largest number of entries the catalog answers with
MaxItems == 3

\* largest length of the taps list for which tap events are still delivered
MaxTaps == 2

(* ------------------------- Python string helpers ---------------------- *)

Min(a, b) == IF a < b THEN a ELSE b

Max(a, b) == IF a > b THEN a ELSE b

\* s[a:b] with 0 <= a <= b (Python clamps the slice to the string)
PySlice(str, a, b) == SubSeq(str, a + 1, Min(b, Len(str)))

\* s[-n:]
PyTail(str, n) == SubSeq(str, Max(1, Len(str) - n + 1), Len(str))

RECURSIVE Split(_, _)
\* str.split(sep)
Split(str, sep) ==
    IF \A k \in 1..Len(str) : str[k] # sep
    THEN <<str>>
    ELSE LET k == CHOOSE k \in 1..Len(str) :
                      str[k] = sep /\ \A j \in 1..(k - 1) : str[j] # sep
         IN  <<SubSeq(str, 1, k - 1)>> \o Split(SubSeq(str, k + 1, Len(str)), sep)

RECURSIVE Join(_, _)
\* sep.join(fields)
Join(fields, sep) ==
    IF Len(fields) = 0 THEN <<>>
    ELSE IF Len(fields) = 1 THEN fields[1]
    ELSE fields[1] \o <<sep>> \o Join(Tail(fields), sep)

Digits == {"0", "1", "2", "3", "4", "5", "6", "7", "8", "9"}

DigitVal(c) ==
    CASE c = "0" -> 0 [] c = "1" -> 1 [] c = "2" -> 2 [] c = "3" -> 3
      [] c = "4" -> 4 [] c = "5" -> 5 [] c = "6" -> 6 [] c = "7" -> 7
      [] c = "8" -> 8 [] c = "9" -> 9

IsDigits(str) == \A k \in 1..Len(str) : str[k] \in Digits

RECURSIVE DecimalValue(_)
DecimalValue(str) ==
    IF Len(str) = 0 THEN 0
    ELSE 10 * DecimalValue(SubSeq(str, 1, Len(str) - 1)) + DigitVal(str[Len(str)])

\* pd.to_datetime on one field: a YYYYMMDD digit string parses to that day
\* (kept as the integer YYYYMMDD, which orders as the timestamps do); a field
\* with a non-digit character raises ValueError.  The catalog below only
\* holds date fields of these two kinds.
to_datetime(str) ==
    IF IsDigits(str) /\ Len(str) = 8
    THEN [exc |-> "none", value |-> DecimalValue(str)]
    ELSE [exc |-> "ValueError", value |-> 0]

(* ------------------------- make_google_archive ------------------------ *)

BaseTemplate == "https://storage.googleapis.com/gcp-public-data-landsat/LC08/01/"

\* path = pids[0].split('_')[2][1:3]
ArchivePath(pid) == PySlice(Split(pid, "_")[3], 1, 3)

\* row = pids[0].split('_')[2][-2:]
ArchiveRow(pid) == PyTail(Split(pid, "_")[3], 2)

\* f'...LC08/01/0{path}/0{row}'
BaseUrl(pid) ==
    <<BaseTemplate, "0">> \o ArchivePath(pid) \o <<"/", "0">> \o ArchiveRow(pid)

\* f'{baseurl}/{x}/{x}_{band}.TIF'
BandUrl(baseurl, x, band) ==
    baseurl \o <<"/">> \o x \o <<"/">> \o x \o <<"_", band, ".TIF">>

\* the exception raised by pd.to_datetime(x.split('_')[3]), or "none"
DateExc(x) ==
    IF Len(Split(x, "_")) < 4 THEN "IndexError"
    ELSE to_datetime(Split(x, "_")[4]).exc

\* make_google_archive(ps, ['B4', 'B5']): the data frame, one row per id, or
\* the first exception the body raises
make_google_archive(ps) ==
    IF Len(ps) = 0 THEN [exc |-> "IndexError", rows |-> <<>>]
    ELSE IF Len(Split(ps[1], "_")) < 3 THEN [exc |-> "IndexError", rows |-> <<>>]
    ELSE IF \E k \in 1..Len(ps) : DateExc(ps[k]) # "none"
    THEN LET k == CHOOSE k \in 1..Len(ps) :
                      DateExc(ps[k]) # "none"
                      /\ \A j \in 1..(k - 1) : DateExc(ps[j]) = "none"
         IN  [exc |-> DateExc(ps[k]), rows |-> <<>>]
    ELSE [exc |-> "none",
          rows |-> [k \in 1..Len(ps) |->
                      [product_id |-> ps[k],
                       date |-> to_datetime(Split(ps[k], "_")[4]).value,
                       B4 |-> BandUrl(BaseUrl(ps[1]), ps[k], "B4"),
                       B5 |-> BandUrl(BaseUrl(ps[1]), ps[k], "B5")]]]

(* ------------------------- the metadata catalog ----------------------- *)

Sensor == <<"L", "C", "0", "8">>

Level == <<"L", "1", "T", "P">>

Tile047027 == <<"0", "4", "7", "0", "2", "7">>

Tile147127 == <<"1", "4", "7", "1", "2", "7">>

Tile5Digits == <<"4", "7", "0", "2", "7">>

Date20130421 == <<"2", "0", "1", "3", "0", "4", "2", "1">>

Date20130507 == <<"2", "0", "1", "3", "0", "5", "0", "7">>

DateGarbled == <<"X", "X", "X", "X">>

\* granule titles the catalog may answer with: two of the documented form
\* LC08_L1TP_PPPRRR_YYYYMMDD (the later one on a path and row above 99), and
\* three that depart from it (two fields only, a five-digit tile, a date
\* field that is no date)
CatalogTitles ==
    { Join(<<Sensor, Level, Tile047027, Date20130421>>, "_"),
      Join(<<Sensor, Level, Tile147127, Date20130507>>, "_"),
      Join(<<Sensor, Level>>, "_"),
      Join(<<Sensor, Level, Tile5Digits, Date20130421>>, "_"),
      Join(<<Sensor, Level, Tile047027, DateGarbled>>, "_") }

\* the documented identifier format: at least four fields, a six-digit tile
\* field, a date field that parses
WellFormed(pid) ==
    LET f == Split(pid, "_")
    IN  /\ Len(f) >= 4
        /\ Len(f[3]) = 6 /\ IsDigits(f[3])
        /\ to_datetime(f[4]).exc = "none"

SeqsUpTo(S, n) == UNION {[1..m -> S] : m \in 0..n}

(* --------------------------- the raster store ------------------------- *)

Bands == {"B4", "B5"}

\* the missing-value marker and a present value of a cell
NaN == [nan |-> TRUE, v |-> 0]

Val(n) == [nan |-> FALSE, v |-> n]

\* the two georeferenced grids (UTM metres) the store holds scenes on: they
\* overlap in the column x = 10000 and neither contains the other
GridAxes(g) ==
    IF g = "A" THEN [x |-> {0, 10000}, y |-> {0, 10000}]
    ELSE [x |-> {10000, 20000}, y |-> {0, 10000}]

\* the digital number stored at a pixel: on grid A both bands are zero at the
\* origin and B5 = 2 * B4 elsewhere; on grid B, B4 exceeds B5 everywhere
Pixel(g, band, c) ==
    IF g = "A"
    THEN (IF band = "B4" THEN 1 ELSE 2) * ((c[1] + c[2]) \div 10000)
    ELSE IF band = "B4" THEN 3 ELSE c[1] \div 10000

\* what one xr.open_rasterio call answers: "fail" (it raises), or the scene
\* on grid "A" or "B"; "skip" marks a band never opened because the band
\* before it raised
ServedSet ==
    { [B4 |-> "fail", B5 |-> "skip"],
      [B4 |-> "A", B5 |-> "fail"],
      [B4 |-> "A", B5 |-> "A"],
      [B4 |-> "B", B5 |-> "B"],
      [B4 |-> "A", B5 |-> "B"] }

\* xr.open_rasterio(url).squeeze().drop('band').to_dataset(name=band)
open_rasterio(g, band) ==
    [x |-> GridAxes(g).x, y |-> GridAxes(g).y,
     data |-> [c \in GridAxes(g).x \X GridAxes(g).y |-> Val(Pixel(g, band, c))],
     dtype |-> "uint16"]

(* ----------------------- xarray alignment helpers --------------------- *)

\* Reindex with the cells outside the old axes filled with zero
ReindexZeroFill(data, oldx, oldy, newx, newy) ==
    [c \in newx \X newy |->
        IF c[1] \in oldx /\ c[2] \in oldy THEN data[c] ELSE [nan |-> FALSE, v |-> 0]]

\* reindexing one variable onto new axes: labels it has keep their value,
\* the others get the missing-value marker
Reindex(data, oldx, oldy, newx, newy) ==
    [c \in newx \X newy |->
        IF c[1] \in oldx /\ c[2] \in oldy THEN data[c] ELSE NaN]

\* a reindexed variable is promoted to float64 so that it can hold the marker
Promote(dtype, reindexed) == IF reindexed THEN "float64" ELSE dtype

(* ----------------------- create_multiband_dataset --------------------- *)

\* DS = xr.merge(datasets): the bands outer-joined onto the union of their
\* axes
merge(b4, b5) ==
    LET ux == b4.x \cup b5.x
        uy == b4.y \cup b5.y
        re(b) == b.x # ux \/ b.y # uy
    IN  [x |-> ux, y |-> uy,
         data |-> [band \in Bands |->
                     IF band = "B4" THEN Reindex(b4.data, b4.x, b4.y, ux, uy)
                     ELSE Reindex(b5.data, b5.x, b5.y, ux, uy)],
         dtype |-> [band \in Bands |->
                     IF band = "B4" THEN Promote(b4.dtype, re(b4))
                     ELSE Promote(b5.dtype, re(b5))]]

\* create_multiband_dataset(row) against what the store serves for the row:
\* an exception of open_rasterio leaves the function, otherwise the merged
\* dataset of both bands is returned
create_multiband_dataset(srv) ==
    IF srv.B4 = "fail" \/ srv.B5 = "fail"
    THEN [exc |-> "IOError", ds |-> <<>>]
    ELSE [exc |-> "none",
          ds |-> merge(open_rasterio(srv.B4, "B4"), open_rasterio(srv.B5, "B5"))]

(* ------------------------------ xr.concat ----------------------------- *)

UnionX(dss) == UNION {dss[i].x : i \in 1..Len(dss)}

UnionY(dss) == UNION {dss[i].y : i \in 1..Len(dss)}

\* xr.concat(datasets, dim=pd.DatetimeIndex(dates, name='time')): the
\* datasets are outer-joined onto the union of their axes and stacked in the
\* order given; the index is then assigned as the 'time' coordinate, which
\* raises ValueError (conflicting sizes) unless it has one label per dataset.
\* An empty list raises ValueError as well.
concat(dss, dates) ==
    IF Len(dss) = 0 \/ Len(dates) # Len(dss)
    THEN [exc |-> "ValueError", ds |-> <<>>]
    ELSE LET ux == UnionX(dss)
             uy == UnionY(dss)
             re(d) == d.x # ux \/ d.y # uy
         IN  [exc |-> "none",
              ds |-> [time |-> dates, x |-> ux, y |-> uy,
                      data |-> [band \in Bands |->
                                  [i \in 1..Len(dss) |->
                                     Reindex(dss[i].data[band],
                                             dss[i].x, dss[i].y, ux, uy)]],
                      dtype |-> [band \in Bands |->
                                   IF \E i \in 1..Len(dss) :
                                        Promote(dss[i].dtype[band], re(dss[i]))
                                          = "float64"
                                   THEN "float64" ELSE "uint16"]]]

(* -------------------------------- NDVI -------------------------------- *)

\* a - b and a + b in the arrays' common dtype: uint16 arithmetic wraps
Sub(a, b, dtype) == IF dtype = "uint16" THEN (a - b) % (2 ^ 16) ELSE a - b

Add(a, b, dtype) == IF dtype = "uint16" THEN (a + b) % (2 ^ 16) ELSE a + b

CommonDtype(d1, d2) == IF d1 = "uint16" /\ d2 = "uint16" THEN "uint16" ELSE "float64"

\* NdviCell with 0/0 guarded to zero
NdviCellZeroGuard(b5, b4, dtype) ==
    IF b5.nan \/ b4.nan THEN [nan |-> TRUE, num |-> 0, den |-> 1]
    ELSE LET n == Sub(b5.v, b4.v, dtype)
             d == Add(b5.v, b4.v, dtype)
         IN  IF d = 0 THEN [nan |-> FALSE, num |-> 0, den |-> 1]
             ELSE [nan |-> FALSE, num |-> n, den |-> d]

\* one cell of (B5 - B4) / (B5 + B4): a ratio num/den, or not-a-number.  True
\* division never raises: 0/0 is not-a-number, n/0 is an infinity (kept as
\* the ratio with den = 0); a missing operand gives not-a-number.
NdviCell(b5, b4, dtype) ==
    IF b5.nan \/ b4.nan THEN [nan |-> TRUE, num |-> 0, den |-> 1]
    ELSE LET n == Sub(b5.v, b4.v, dtype)
             d == Add(b5.v, b4.v, dtype)
         IN  IF d = 0 /\ n = 0 THEN [nan |-> TRUE, num |-> 0, den |-> 1]
             ELSE [nan |-> FALSE, num |-> n, den |-> d]

\* NDVI = (DS['B5'] - DS['B4']) / (DS['B5'] + DS['B4'])
ComputeNDVI(D) ==
    LET dt == CommonDtype(D.dtype["B5"], D.dtype["B4"])
    IN  [time |-> D.time, x |-> D.x, y |-> D.y,
         data |-> [i \in 1..Len(D.time) |->
                     [c \in D.x \X D.y |->
                        NdviCell(D.data["B5"][i][c], D.data["B4"][i][c], dt)]]]

(* ------------------- point time-series extraction --------------------- *)

RECURSIVE GCD(_, _)
GCD(a, b) == IF b = 0 THEN a ELSE GCD(b, a % b)

Abs(a) == IF a < 0 THEN -a ELSE a

\* a ratio in lowest terms
Reduced(n, d) ==
    LET g == GCD(Abs(n), Abs(d))
    IN  IF g = 0 THEN <<n, d>> ELSE <<n \div g, d \div g>>

RatAdd(p, q) == Reduced(p[1] * q[2] + q[1] * p[2], p[2] * q[2])

RECURSIVE RatSum(_)
\* the sum of the ratios of a set of <<label, ratio>> pairs
RatSum(S) ==
    IF S = {} THEN <<0, 1>>
    ELSE LET e == CHOOSE e \in S : TRUE
         IN  RatAdd(e[2], RatSum(S \ {e}))

\* buf = 5000  # look at point +/- 5km
buf == 5000

\* .sel(x=slice(lo, hi)): the labels of the axis within [lo, hi]
SelSlice(axis, lo, hi) == {a \in axis : lo <= a /\ a <= hi}

\* the calendar month (YYYYMM) a day falls in
Month(day) == day \div 100

\* index.is_monotonic, which resample requires of the time axis
IsMonotonic(time) == \A i \in 1..(Len(time) - 1) : time[i] <= time[i + 1]

\* the '1MS' buckets: every month from that of the first time step to that
\* of the last
MonthBuckets(time) ==
    {m \in Month(time[1])..Month(time[Len(time)]) : (m % 100) \in 1..12}

\* the mean of the cells that are not missing (not-a-number when there are
\* none)
NanMean(cells) ==
    LET valid == {e \in cells : ~e[2].nan}
        sum   == RatSum({<<e[1], <<e[2].num, e[2].den>>>> : e \in valid})
    IN  IF valid = {} THEN [nan |-> TRUE, num |-> 0, den |-> 1]
        ELSE [nan |-> FALSE,
              num |-> Reduced(sum[1], sum[2] * Cardinality(valid))[1],
              den |-> Reduced(sum[1], sum[2] * Cardinality(valid))[2]]

\* ds = NDVI.sel(x=slice(xcen-buf,xcen+buf), y=slice(ycen-buf,ycen+buf))
\* timeseries = ds.resample(time='1MS').mean(dims=['x','y'])
\* s = timeseries.to_series()
\* The slices select whatever labels fall in the window, possibly none, and
\* never raise; resample raises ValueError on a time axis that is not
\* monotonic.
ExtractSeries(N, tap) ==
    LET wx == SelSlice(N.x, tap[1] - buf, tap[1] + buf)
        wy == SelSlice(N.y, tap[2] - buf, tap[2] + buf)
    IN  IF ~IsMonotonic(N.time) THEN [exc |-> "ValueError", series |-> <<>>]
        ELSE [exc |-> "none",
              series |->
                [m \in MonthBuckets(N.time) |->
                   NanMean({<<<<i, c>>, N.data[i][c]>> :
                              i \in {j \in 1..Len(N.time) : Month(N.time[j]) = m},
                              c \in wx \X wy})]]

(* ------------------------------ the cells ----------------------------- *)

\* pids[:-1]
AllButLast(seq) == SubSeq(seq, 1, Len(seq) - 1)

\* df.date.tolist()
DateList(rows) == [k \in 1..Len(rows) |-> rows[k].date]

EmptyDS == [time |-> <<>>, x |-> {}, y |-> {},
            data |-> [band \in Bands |-> <<>>],
            dtype |-> [band \in Bands |-> "uint16"]]

EmptyNDVI == [time |-> <<>>, x |-> {}, y |-> {}, data |-> <<>>]

\* a SingleTap event coordinate: None, or a number
None == <<>>

Some(v) == <<v>>

TapCoordsX == {None, Some(10000), Some(50000)}

TapCoordsY == {None, Some(0)}

DefaultTap == <<562370, 5312519>>

Init ==
    /\ pc = "query"
    /\ entry = <<>>
    /\ pids = <<>>
    /\ df = <<>>
    /\ served = <<>>
    /\ datasets = <<>>
    /\ diag = <<>>
    /\ DS = EmptyDS
    /\ NDVI = EmptyNDVI
    /\ taps = <<>>
    /\ calls = <<>>
    /\ cen = <<>>
    /\ s = <<>>
    /\ err = "none"

\* df = query_cmr_landsat(path=47, row=27): the catalog answers with some
\* list of granule titles
query_cmr_landsat ==
    /\ pc = "query" /\ err = "none"
    /\ \E e \in SeqsUpTo(CatalogTitles, MaxItems) : entry' = e
    /\ pc' = "archive"
    /\ UNCHANGED <<pids, df, served, datasets, diag, DS, NDVI, taps, calls, cen, s, err>>

\* pids = df.title.tolist(); df = make_google_archive(pids[:-1], ['B4', 'B5'])
\* (a frame built from an empty entry list has no title column)
ArchiveCell ==
    /\ pc = "archive" /\ err = "none"
    /\ IF Len(entry) = 0
       THEN /\ err' = "AttributeError"
            /\ UNCHANGED <<pc, pids, df>>
       ELSE /\ pids' = entry
            /\ LET r == make_google_archive(AllButLast(entry))
               IN  IF r.exc # "none"
                   THEN err' = r.exc /\ UNCHANGED <<pc, df>>
                   ELSE df' = r.rows /\ pc' = "load" /\ UNCHANGED err
    /\ UNCHANGED <<entry, served, datasets, diag, DS, NDVI, taps, calls, cen, s>>

\* one iteration of `for i,row in df.iterrows()`: the try block loads the
\* row and appends its dataset; the except block prints and goes on
LoadRow ==
    /\ pc = "load" /\ err = "none"
    /\ Len(served) < Len(df)
    /\ \E srv \in ServedSet :
         LET row == df[Len(served) + 1]
             r   == create_multiband_dataset(srv)
         IN  /\ served' = Append(served, srv)
             /\ IF r.exc = "none"
                THEN /\ datasets' = Append(datasets, r.ds)
                     /\ diag' = Append(diag, [line |-> "loading...", date |-> row.date])
                ELSE /\ datasets' = datasets
                     /\ diag' = diag \o
                          <<[line |-> "loading...", date |-> row.date],
                            [line |-> "ERROR loading, skipping acquistion!",
                             date |-> row.date]>>
    /\ pc' = IF Len(served) + 1 = Len(df) THEN "concat" ELSE "load"
    /\ UNCHANGED <<entry, pids, df, DS, NDVI, taps, calls, cen, s, err>>

\* DS = xr.concat(datasets, dim=pd.DatetimeIndex(df.date.tolist(), name='time'))
ConcatCell ==
    /\ pc = "concat" /\ err = "none"
    /\ LET r == concat(datasets, DateList(df))
       IN  IF r.exc # "none"
           THEN err' = r.exc /\ UNCHANGED <<pc, DS>>
           ELSE DS' = r.ds /\ pc' = "ndvi" /\ UNCHANGED err
    /\ UNCHANGED <<entry, pids, df, served, datasets, diag, NDVI, taps, calls, cen, s>>

\* NDVI = (DS['B5'] - DS['B4']) / (DS['B5'] + DS['B4'])
NdviExpr ==
    /\ pc = "ndvi" /\ err = "none"
    /\ NDVI' = ComputeNDVI(DS)
    /\ pc' = "plot"
    /\ UNCHANGED <<entry, pids, df, served, datasets, diag, DS, taps, calls, cen, s, err>>

\* the hvplot / SingleTap / DynamicMap cell: from here on taps are delivered
PlotCell ==
    /\ pc = "plot" /\ err = "none"
    /\ pc' = "taps"
    /\ UNCHANGED <<entry, pids, df, served, datasets, diag, DS, NDVI, taps, calls,
                   cen, s, err>>

\* record_coords with the new point put at the head of the list
RecordTapAtHead(tp, x, y) ==
    IF x # None /\ y # None THEN <<<<x[1], y[1]>>>> \o tp ELSE tp

\* if None not in [x,y]: taps.append([x, y])
RecordTap(tp, x, y) ==
    IF x # None /\ y # None THEN Append(tp, <<x[1], y[1]>>) ELSE tp

\* def record_coords(x, y), called by the DynamicMap on every tap event.
\* calls is the event stream's own log: the events delivered with both
\* coordinates set, in arrival order.
record_coords ==
    /\ pc \in {"taps", "reduce", "done"}
    /\ Len(taps) < MaxTaps
    /\ \E x \in TapCoordsX, y \in TapCoordsY :
         /\ taps' = RecordTap(taps, x, y)
         /\ calls' = IF <<x, y>> \in (TapCoordsX \ {None}) \X (TapCoordsY \ {None})
                     THEN Append(calls, <<x, y>>)
                     ELSE calls
    /\ UNCHANGED <<pc, entry, pids, df, served, datasets, diag, DS, NDVI, cen, s, err>>

\* if len(taps) == 0: taps = [(562370, 5312519)]
TapsDefault ==
    /\ pc = "taps" /\ err = "none"
    /\ taps' = IF Len(taps) = 0 THEN <<DefaultTap>> ELSE taps
    /\ pc' = "reduce"
    /\ UNCHANGED <<entry, pids, df, served, datasets, diag, DS, NDVI, calls, cen, s, err>>

\* xcen,ycen = taps[0] ... s = timeseries.to_series()
ReduceCell ==
    /\ pc = "reduce" /\ err = "none"
    /\ cen' = taps[1]
    /\ LET r == ExtractSeries(NDVI, taps[1])
       IN  IF r.exc # "none"
           THEN err' = r.exc /\ UNCHANGED <<pc, s>>
           ELSE s' = r.series /\ pc' = "done" /\ UNCHANGED err
    /\ UNCHANGED <<entry, pids, df, served, datasets, diag, DS, NDVI, taps, calls>>

Next ==
    \/ query_cmr_landsat
    \/ ArchiveCell
    \/ LoadRow
    \/ ConcatCell
    \/ NdviExpr
    \/ PlotCell
    \/ record_coords
    \/ TapsDefault
    \/ ReduceCell

Spec == Init /\ [][Next]_vars

(* ============================== claims ================================ *)

\* the archive cell has run (to completion or to an exception)
ArchiveRan == pc \notin {"query", "archive"} \/ (pc = "archive" /\ err # "none")

\* the archive cell returned a data frame
ArchiveBuilt == pc \notin {"query", "archive"}

\* the load loop has finished and the concat cell has run
ConcatRan ==
    pc \in {"ndvi", "plot", "taps", "reduce", "done"} \/ (pc = "concat" /\ err # "none")

\* the concat cell returned a dataset
DSBuilt == pc \in {"ndvi", "plot", "taps", "reduce", "done"}

\* the index expression has been evaluated
NDVIBuilt == pc \in {"plot", "taps", "reduce", "done"}

\* the store answered both band reads of a row
BothServed(srv) == srv.B4 \in {"A", "B"} /\ srv.B5 \in {"A", "B"}

\* the rows of the archive whose bands were all read, in row order
RECURSIVE LoadedRows(_)
LoadedRows(n) ==
    IF n = 0 THEN <<>>
    ELSE IF BothServed(served[n]) THEN Append(LoadedRows(n - 1), n)
    ELSE LoadedRows(n - 1)

\* C1: when some rows fail to load and at least one loads, unification still
\* succeeds: no error leaves the concat step, a diagnostic was recorded, and
\* the time axis has one entry per loaded row, labelled with that row's own
\* acquisition date.
C1_PartialFailureTolerated ==
    (ConcatRan /\ Len(datasets) >= 1 /\ Len(datasets) < Len(served))
    => /\ DSBuilt
       /\ \E k \in 1..Len(diag) : diag[k].line = "ERROR loading, skipping acquistion!"
       /\ LET rows == LoadedRows(Len(served))
          IN  DS.time = [k \in 1..Len(rows) |-> df[rows[k]].date]

\* the tile field of an identifier
TileField(pid) == Split(pid, "_")[3]

\* {base}/{path}/{row}/{identifier}/{identifier}_{band}.TIF with the
\* three-digit path and row of the tile field
ExpectedUrl(first, pid, band) ==
    <<BaseTemplate>> \o SubSeq(TileField(first), 1, 3) \o <<"/">>
      \o SubSeq(TileField(first), 4, 6)
      \o <<"/">> \o pid \o <<"/">> \o pid \o <<"_", band, ".TIF">>

\* C2: for well-formed identifiers the URI of (identifier, band) is
\* {base}/{path}/{row}/{identifier}/{identifier}_{band}.TIF with the
\* three-digit path and row of the first identifier's tile field, for every
\* path and row 000..999.
C2_UriUsesThreeDigitPathRow ==
    (ArchiveBuilt /\ \A k \in 1..Len(df) : WellFormed(df[k].product_id))
    => \A k \in 1..Len(df) : \A band \in Bands :
          df[k][band] = ExpectedUrl(df[1].product_id, df[k].product_id, band)

\* the permutation that sorts dates ascending and keeps equal dates in input
\* order
StableSortPerm(dates) ==
    CHOOSE p \in [1..Len(dates) -> 1..Len(dates)] :
        /\ \A i, j \in 1..Len(dates) : i # j => p[i] # p[j]
        /\ \A i \in 1..(Len(dates) - 1) :
              \/ dates[p[i]] < dates[p[i + 1]]
              \/ (dates[p[i]] = dates[p[i + 1]] /\ p[i] < p[i + 1])

Permuted(seq, p) == [i \in 1..Len(seq) |-> seq[p[i]]]

\* C3: the time axis of the unified dataset is in ascending timestamp order
\* whatever the input order, equal timestamps in input order (the dataset is
\* the stack of the loaded items stably sorted by date).
C3_TimeAxisStablySorted ==
    DSBuilt
    => LET p == StableSortPerm(DateList(df))
       IN  /\ IsMonotonic(DS.time)
           /\ DS = concat(Permuted(datasets, p), Permuted(DateList(df), p)).ds

PermsOf(n) ==
    {p \in [1..n -> 1..n] : \A i, j \in 1..n : i # j => p[i] # p[j]}

\* C4: unification is order-independent: permuting the items (the loaded
\* datasets together with their dates) before concatenation gives the same
\* unified dataset, time axis and cells.  Stated for items of pairwise
\* distinct timestamps, where no tie-break can make the order matter.
C4_OrderIndependent ==
    (DSBuilt /\ \A i, j \in 1..Len(df) : i # j => df[i].date # df[j].date)
    => \A p \in PermsOf(Len(datasets)) :
          concat(Permuted(datasets, p), Permuted(DateList(df), p)).ds = DS

C6_MalformedIdentifierRejected ==
    ArchiveBuilt => \A k \in 1..Len(df) : WellFormed(df[k].product_id)

\* the bands of a row were read from grids with the same axes
SameAxes(srv) == GridAxes(srv.B4) = GridAxes(srv.B5)

\* C7: a row whose bands have differing coordinate axes is never turned into
\* a multi-band dataset: the datasets collected are exactly those of the
\* rows whose bands were all read and share their axes.
C7_BandMisalignmentRejected ==
    Len(datasets) =
        Cardinality({i \in 1..Len(served) : BothServed(served[i]) /\ SameAxes(served[i])})

\* C8: the index computation never raises, and wherever both bands are zero
\* its result is not-a-number (not zero).
C8_ZeroOverZeroIsNaN ==
    /\ (pc = "ndvi" => err = "none")
    /\ NDVIBuilt
       => \A i \in 1..Len(DS.time) : \A c \in DS.x \X DS.y :
             (DS.data["B4"][i][c] = Val(0) /\ DS.data["B5"][i][c] = Val(0))
             => /\ NDVI.data[i][c].nan
                /\ ~(NDVI.data[i][c].num = 0 /\ ~NDVI.data[i][c].nan)

\* C8 witness: the index was computed over a dataset holding a cell where
\* both bands are zero (the origin of grid A).
C8_Witness ==
    /\ NDVIBuilt
    /\ \E i \in 1..Len(DS.time) :
          /\ <<0, 0>> \in DS.x \X DS.y
          /\ DS.data["B4"][i][<<0, 0>>] = Val(0)
          /\ DS.data["B5"][i][<<0, 0>>] = Val(0)
          /\ NDVI.data[i][<<0, 0>>].nan

\* C9: a window that does not intersect the spatial extent never yields a
\* series: whenever the extraction returned one, the window around taps[0]
\* holds at least one cell of the array.
C9_EmptySelectionRejected ==
    pc = "done"
    => /\ SelSlice(NDVI.x, taps[1][1] - buf, taps[1][1] + buf) # {}
       /\ SelSlice(NDVI.y, taps[1][2] - buf, taps[1][2] + buf) # {}

\* the acquisition date of a well-formed identifier
DateOf(pid) == to_datetime(Split(pid, "_")[4]).value

\* seq without its k-th element
Without(seq, k) == SubSeq(seq, 1, k - 1) \o SubSeq(seq, k + 1, Len(seq))

\* C10: for a catalog answer of well-formed identifiers, in whatever order,
\* the archive cell completes; with two or more items the archive holds
\* every item but one with the most recent acquisition date, and with one
\* item it is empty.
C10_MostRecentExcluded ==
    (ArchiveRan /\ Len(entry) >= 1 /\ \A k \in 1..Len(entry) : WellFormed(entry[k]))
    => /\ ArchiveBuilt
       /\ \E k \in 1..Len(entry) :
             /\ \A j \in 1..Len(entry) : DateOf(entry[j]) <= DateOf(entry[k])
             /\ [j \in 1..Len(df) |-> df[j].product_id] = Without(entry, k)

\* the points of a log of tap events
Coords(cs) == [k \in 1..Len(cs) |-> <<cs[k][1][1], cs[k][2][1]>>]

\* C11 as stated: the taps list holds exactly the calls with both coordinates
\* set, in arrival order (the default alone when there was no such call),
\* and the reduction center is the head of the list: the first recorded tap,
\* the default if and only if no tap was recorded.
C11_TapsExactlyTheCalls ==
    /\ calls # <<>> => taps = Coords(calls)
    /\ calls = <<>> => taps \in {<<>>, <<DefaultTap>>}
    /\ cen # <<>> => cen = taps[1]

\* C11 amended: the taps list holds the calls with both coordinates set, in
\* arrival order, preceded by the default entry if the default cell ran
\* while the list was empty; entries are only ever appended, never removed
\* or altered; the reduction center is the head of the list, and stays what
\* it was set to.
C11_TapsAppendOnly ==
    [][ /\ taps' \in {Coords(calls'), <<DefaultTap>> \o Coords(calls')}
        /\ (pc' = "taps" => taps' = Coords(calls'))
        /\ (pc' \in {"reduce", "done"} => taps' # <<>>)
        /\ Len(taps') >= Len(taps)
        /\ SubSeq(taps', 1, Len(taps)) = taps
        /\ (cen' # <<>> => cen' = taps'[1])
        /\ (cen # <<>> => cen' = cen)
      ]_vars

\* C11 witness: a tap arrived after the default cell had filled the empty
\* list, and the extraction then used the default as its center.
C11_Witness ==
    /\ pc = "done"
    /\ calls = <<<<Some(10000), Some(0)>>>>
    /\ taps = <<DefaultTap, <<10000, 0>>>>
    /\ cen = DefaultTap

====
